---- MODULE Spec2Model ----
(***************************************************************************)
(* tauri-plugin-debug-bridge: the HTTP bridge that turns the one-way       *)
(* window.eval primitive into request/response calls.                      *)
(*                                                                         *)
(* Modelled here: the router's layer stack and auth_middleware (lib.rs),   *)
(* the route handlers of webview.rs and backend.rs with the state mutex    *)
(* they hold, eval_with_result / invoke (register, inject, wait with a     *)
(* deadline, evict), and the eval_callback command that resolves a waiter. *)
(* Further specifications over the same variables: SpecFramer (the frame   *)
(* eval_with_result builds and its execution), SpecRelay (console and      *)
(* event streams), SpecToken (generate_auth_token and the setup closure),  *)
(* SpecTimer (the deadline of a waiting call), SpecWalker and SpecRefs     *)
(* (SNAPSHOT_JS, click and fill by ref).                                   *)
(***************************************************************************)
EXTENDS Integers, Sequences, FiniteSets, TLC

\* ---------------------------------------------------------------- bounds
MaxReqs == 2
MaxClock == 1

Reqs == 1..MaxReqs

\* Rust's Option<T>
None == <<>>
Some(x) == <<x>>

\* --------------------------------------------------------------- requests
\* Routes registered by build_router.
CallPaths == {"/eval", "/click", "/fill", "/snapshot", "/screenshot", "/invoke"}
Paths == {"/health", "/events/emit"} \cup CallPaths

\* The code a route runs: webview_eval, click, fill, snapshot and screenshot lock the
\* state, look the window up and call eval_with_result; invoke carries its own copy
\* of that sequence.
Route(path) ==
    CASE path = "/health" -> "health"
      [] path = "/events/emit" -> "emit"
      [] path = "/invoke" -> "invoke"
      [] OTHER -> "eval_with_result"

CallRoutes == {Route(p) : p \in CallPaths}

\* Token values: the one generate_auth_token returned at startup and another
\* one a client may send instead.
StartupToken == "tokA"
AuthTokens == {StartupToken, "tokB"}
NoHeader == "<no header>"
Headers == AuthTokens \cup {NoHeader}

VARIABLES
    token,      \* the token generated in init() and handed to build_router
    clock,      \* SystemTime::now() as read by uuid_v4
    req,        \* req[r]: [route, header] of request r once it was sent
    pc,         \* pc[r]: where request r is
    expected,   \* expected[r]: the string auth_middleware compared the header with
    stateLock,  \* holder of the Mutex<BridgeState> guard (None when free)
    id,         \* id[r]: the CallId uuid_v4 gave to call r
    pending,    \* PendingResults: id -> the call whose oneshot::Sender is stored
    chan,       \* chan[r]: state of call r's oneshot channel
    msg,        \* msg[r]: the EvalResult sent on call r's channel
    sandbox,    \* calls whose wrapped frame runs in the webview and has not called back
    outcome,    \* outcome[r]: what request r returned to its client
    result,     \* result[r]: the EvalResult returned with outcome "Ok"
    removedBy,  \* history: who removed the registry entry call r inserted
    cbArgs,     \* history: the (id, EvalResult) arguments of the callback that completed r
    evalCalls,  \* history: evalCalls[r]: how often call r invoked window.eval
    inserts,    \* history: inserts[r]: how often call r inserted into PendingResults
    js_code,    \* the caller's code handed to eval_with_result, a sequence of lexemes
    frameId,    \* the id the frame is built for
    code_body,  \* the code as spliced into the frame (None before framing)
    wrapped,    \* the frame handed to window.eval (None before framing)
    fpc,        \* where the execution of the frame in the webview is
    caught,     \* __e: what the frame's catch clause caught (None when nothing)
    hostCalls,  \* the eval_callback invocations that reached the host, in order
    stream,     \* which relay is looked at: "console", "events" ("off": none)
    published,  \* history: the messages published, in order; the k-th one is tagged k
    ring,       \* the broadcast channel's buffer: the messages it still holds
    subState,   \* subState[s]: where the WebSocket handler of socket s is
    cursor,     \* cursor[s]: tag of the last message the broadcast receiver of s passed
    listens,    \* listens[s]: the event name the listener of s was registered for
    queue,      \* queue[s]: the mpsc channel of the event listener of s
    delivered,  \* history: delivered[s]: the messages sent to socket s, in order
    conn,       \* conn[s]: the connection of socket s as its client left it
    hooked,     \* window.__debugBridgeConsoleHooked
    hookLayers, \* how many hook wrappers are around each console function
    consoleCalls, \* history: console.* calls made in the hooked page
    rngBytes,   \* the [u8; 16] drawn by generate_auth_token (<<>> before setup)
    authToken,  \* `token` of the setup closure (None before setup)
    routerToken, \* the AuthToken held by the router's Extension layer
    extSeen,    \* history: the AuthToken extension put into the latest request
    wpc,        \* the timed call: "idle", "waiting", "returned", "timed_out" ("off": none)
    callPath,   \* the route of the timed call
    requested,  \* the timeout its request body asked for (None: no such field)
    armed,      \* the Duration, in seconds, handed to tokio::time::timeout
    elapsed,    \* seconds since the timeout was armed
    armedBy,    \* history: armedBy[p]: the durations calls of route p were armed with
    doc,        \* the document: each element's parent and attributes (None: no page)
    marks,      \* marks[e]: the data-debug-ref attribute of element e
    last,       \* history: what the latest /snapshot found and returned
    prev,       \* history: the same for the snapshot before it
    changed,    \* history: the document changed since the latest snapshot
    mutations,  \* history: how often the page changed the document
    lastAction  \* history: the click or fill by ref just made and the element it hit

bridgeVars == <<token, clock, req, pc, expected, stateLock, id, pending, chan, msg,
                sandbox, outcome, result, removedBy, cbArgs, evalCalls, inserts>>

framerVars == <<js_code, frameId, code_body, wrapped, fpc, caught, hostCalls>>

relayVars == <<stream, published, ring, subState, cursor, listens, queue, delivered,
               conn, hooked, hookLayers, consoleCalls>>

tokenVars == <<rngBytes, authToken, routerToken, extSeen>>

timerVars == <<wpc, callPath, requested, armed, elapsed, armedBy>>

walkerVars == <<doc, marks, last, prev, changed, mutations, lastAction>>

vars == <<bridgeVars, framerVars, relayVars, tokenVars, timerVars, walkerVars>>

\* ------------------------------------------------------- HashMap helpers
MapInsert(m, k, v) == [x \in (DOMAIN m) \cup {k} |-> IF x = k THEN v ELSE m[x]]
MapRemove(m, k) == [x \in (DOMAIN m) \ {k} |-> m[x]]
EmptyMap == [x \in {} |-> 0]

\* ------------------------------------------------------------- AuthGate
\* build_router: the .layer(..) calls in the order they are written.
LayerCalls == <<"DefaultBodyLimit", "Extension", "auth_middleware">>

RECURSIVE Reverse(_)
Reverse(s) == IF s = <<>> THEN <<>> ELSE Append(Reverse(Tail(s)), Head(s))

\* Each .layer wraps what was built so far, so the layer added last runs first.
build_router == Reverse(LayerCalls)

\* auth_middleware's `expected`: the AuthToken extension, or "" (unwrap_or_default).
auth_expected(r) == IF r.ext = None THEN "" ELSE r.ext[1]

\* auth_middleware's `provided`: the header, or "" (unwrap_or("")).
auth_provided(r) == IF r.header = NoHeader THEN "" ELSE r.header

auth_middleware(r) ==
    IF r.path = "/health" THEN TRUE
    ELSE auth_provided(r) = auth_expected(r)

\* A request passing the layer stack, outermost layer first:
\* [allowed: it reaches its route handler, expected: what auth compared with].
RECURSIVE Serve(_, _, _, _)
Serve(stack, r, tok, seen) ==
    IF stack = <<>> THEN [allowed |-> TRUE, expected |-> seen]
    ELSE LET layer == Head(stack) IN
         CASE layer = "auth_middleware" ->
                 IF auth_middleware(r)
                 THEN Serve(Tail(stack), r, tok, Some(auth_expected(r)))
                 ELSE [allowed |-> FALSE, expected |-> Some(auth_expected(r))]
           [] layer = "Extension" ->
                 Serve(Tail(stack), [r EXCEPT !.ext = Some(tok)], tok, seen)
           [] OTHER -> Serve(Tail(stack), r, tok, seen)

\* ----------------------------------------------------------------- Init
InitBridge ==
    /\ token = StartupToken
    /\ clock = 0
    /\ req = [r \in Reqs |-> None]
    /\ pc = [r \in Reqs |-> "idle"]
    /\ expected = [r \in Reqs |-> None]
    /\ stateLock = None
    /\ id = [r \in Reqs |-> None]
    /\ pending = EmptyMap
    /\ chan = [r \in Reqs |-> "none"]
    /\ msg = [r \in Reqs |-> None]
    /\ sandbox = {}
    /\ outcome = [r \in Reqs |-> "none"]
    /\ result = [r \in Reqs |-> None]
    /\ removedBy = [r \in Reqs |-> {}]
    /\ cbArgs = [r \in Reqs |-> None]
    /\ evalCalls = [r \in Reqs |-> 0]
    /\ inserts = [r \in Reqs |-> 0]

\* The guard of the state mutex is dropped when the handler returns.
Unlock(r) == IF stateLock = Some(r) THEN None ELSE stateLock

\* A client sends request r; it runs through the layer stack.
Request(r, path, header) ==
    /\ pc[r] = "idle"
    /\ LET served == Serve(build_router,
                           [path |-> path, header |-> header, ext |-> None],
                           token, None)
       IN /\ req' = [req EXCEPT ![r] = Some([route |-> Route(path), header |-> header])]
          /\ expected' = [expected EXCEPT ![r] = served.expected]
          /\ IF served.allowed
             THEN /\ pc' = [pc EXCEPT ![r] = "handler"]
                  /\ outcome' = outcome
             ELSE /\ pc' = [pc EXCEPT ![r] = "done"]
                  /\ outcome' = [outcome EXCEPT ![r] = "Unauthorized"]
    /\ UNCHANGED <<framerVars, relayVars, tokenVars, timerVars, walkerVars, evalCalls, inserts, token, clock, stateLock, id, pending, chan, msg, sandbox,
                   result, removedBy, cbArgs>>


\* GET /health: no state, no lock.
health(r) ==
    /\ pc[r] = "handler"
    /\ req[r][1].route = "health"
    /\ pc' = [pc EXCEPT ![r] = "done"]
    /\ outcome' = [outcome EXCEPT ![r] = "Health"]
    /\ UNCHANGED <<framerVars, relayVars, tokenVars, timerVars, walkerVars, evalCalls, inserts, token, clock, req, expected, stateLock, id, pending, chan, msg,
                   sandbox, result, removedBy, cbArgs>>

\* POST /events/emit: app.emit(event, payload); takes no lock.
emit(r) ==
    /\ pc[r] = "handler"
    /\ req[r][1].route = "emit"
    /\ pc' = [pc EXCEPT ![r] = "done"]
    /\ outcome' = [outcome EXCEPT ![r] = "Emitted"]
    /\ UNCHANGED <<framerVars, relayVars, tokenVars, timerVars, walkerVars, evalCalls, inserts, token, clock, req, expected, stateLock, id, pending, chan, msg,
                   sandbox, result, removedBy, cbArgs>>

\* webview_eval, screenshot, snapshot, click, fill and invoke all start with
\* `let state = state.lock().await;` and keep the guard until they return.
LockState(r) ==
    /\ pc[r] = "handler"
    /\ req[r][1].route \in CallRoutes
    /\ stateLock = None
    /\ stateLock' = Some(r)
    /\ pc' = [pc EXCEPT ![r] = "get_window"]
    /\ UNCHANGED <<framerVars, relayVars, tokenVars, timerVars, walkerVars, evalCalls, inserts, token, clock, req, expected, id, pending, chan, msg, sandbox,
                   outcome, result, removedBy, cbArgs>>

get_window_NoEarlyReturn(r, found) ==
    /\ pc[r] = "get_window"
    /\ pc' = [pc EXCEPT ![r] = "uuid_v4"]
    /\ outcome' = [outcome EXCEPT ![r] = IF found THEN @ ELSE "NotFound"]
    /\ UNCHANGED stateLock
    /\ UNCHANGED <<framerVars, relayVars, tokenVars, timerVars, walkerVars, evalCalls, inserts, token, clock, req, expected, id, pending, chan, msg, sandbox,
                   result, removedBy, cbArgs>>

\* get_window / get_webview_window("main"): 404 when the window does not exist.
get_window(r, found) ==
    /\ pc[r] = "get_window"
    /\ IF found
       THEN /\ pc' = [pc EXCEPT ![r] = "uuid_v4"]
            /\ UNCHANGED <<outcome, stateLock>>
       ELSE /\ pc' = [pc EXCEPT ![r] = "done"]
            /\ outcome' = [outcome EXCEPT ![r] = "NotFound"]
            /\ stateLock' = Unlock(r)
    /\ UNCHANGED <<framerVars, relayVars, tokenVars, timerVars, walkerVars, evalCalls, inserts, token, clock, req, expected, id, pending, chan, msg, sandbox,
                   result, removedBy, cbArgs>>

\* uuid_v4(): the wall clock's nanoseconds since the epoch, as hex. Nothing
\* random enters it: two reads of the same clock value give the same id.
uuid_v4 == clock

\* let id = uuid_v4(); let (tx, rx) = oneshot::channel();
NewCall(r) ==
    /\ pc[r] = "uuid_v4"
    /\ id' = [id EXCEPT ![r] = Some(uuid_v4)]
    /\ chan' = [chan EXCEPT ![r] = "open"]
    /\ pc' = [pc EXCEPT ![r] = "insert"]
    /\ UNCHANGED <<framerVars, relayVars, tokenVars, timerVars, walkerVars, evalCalls, inserts, token, clock, req, expected, stateLock, pending, msg, sandbox,
                   outcome, result, removedBy, cbArgs>>

Register_NoInsert(r) ==
    /\ pc[r] = "insert"
    /\ inserts' = [inserts EXCEPT ![r] = @ + 1]
    /\ pc' = [pc EXCEPT ![r] = "eval"]
    /\ UNCHANGED <<framerVars, relayVars, tokenVars, timerVars, walkerVars, evalCalls, token, clock, req, expected, stateLock, id, msg, sandbox,
                   outcome, result, cbArgs, pending, removedBy, chan>>

\* pending.insert(id, tx): HashMap::insert replaces an entry under the same key,
\* which drops the sender stored there.
Register(r) ==
    /\ pc[r] = "insert"
    /\ LET k == id[r][1] IN
       /\ pending' = MapInsert(pending, k, r)
       /\ IF k \in DOMAIN pending
          THEN LET old == pending[k] IN
               /\ removedBy' = [removedBy EXCEPT ![old] = @ \cup {"overwrite"}]
               /\ chan' = [chan EXCEPT ![old] = IF @ = "open" THEN "closed" ELSE @]
          ELSE UNCHANGED <<removedBy, chan>>
    /\ inserts' = [inserts EXCEPT ![r] = @ + 1]
    /\ pc' = [pc EXCEPT ![r] = "eval"]
    /\ UNCHANGED <<framerVars, relayVars, tokenVars, timerVars, walkerVars, evalCalls, token, clock, req, expected, stateLock, id, msg, sandbox,
                   outcome, result, cbArgs>>

\* window.eval(&wrapped).map_err(..)?: on Err the handler returns at once.
Eval_Retry(r, ok) ==
    /\ pc[r] = "eval"
    /\ evalCalls' = [evalCalls EXCEPT ![r] = @ + 1]
    /\ IF ok
       THEN /\ sandbox' = sandbox \cup {r}
            /\ pc' = [pc EXCEPT ![r] = "wait"]
            /\ UNCHANGED <<outcome, stateLock>>
       ELSE IF evalCalls[r] = 0
            THEN UNCHANGED <<pc, outcome, stateLock, sandbox>>
            ELSE /\ pc' = [pc EXCEPT ![r] = "done"]
                 /\ outcome' = [outcome EXCEPT ![r] = "InjectionFailed"]
                 /\ stateLock' = Unlock(r)
                 /\ UNCHANGED sandbox
    /\ UNCHANGED <<framerVars, relayVars, tokenVars, timerVars, walkerVars, inserts, token, clock, req, expected, id, pending, chan, msg, result,
                   removedBy, cbArgs>>

Eval(r, ok) ==
    /\ pc[r] = "eval"
    /\ evalCalls' = [evalCalls EXCEPT ![r] = @ + 1]
    /\ IF ok
       THEN /\ sandbox' = sandbox \cup {r}
            /\ pc' = [pc EXCEPT ![r] = "wait"]
            /\ UNCHANGED <<outcome, stateLock>>
       ELSE /\ pc' = [pc EXCEPT ![r] = "done"]
            /\ outcome' = [outcome EXCEPT ![r] = "InjectionFailed"]
            /\ stateLock' = Unlock(r)
            /\ UNCHANGED sandbox
    /\ UNCHANGED <<framerVars, relayVars, tokenVars, timerVars, walkerVars, inserts, token, clock, req, expected, id, pending, chan, msg, result,
                   removedBy, cbArgs>>

\* timeout(.., rx).await completing with the receiver's value:
\* Ok(Ok(result)) => the result, Ok(Err(_)) => "callback channel dropped".
Recv_FailureIsError(r) ==
    /\ pc[r] = "wait"
    /\ chan[r] \in {"sent", "closed"}
    /\ IF chan[r] = "sent"
       THEN IF msg[r][1].success
            THEN /\ outcome' = [outcome EXCEPT ![r] = "Ok"]
                 /\ result' = [result EXCEPT ![r] = msg[r]]
            ELSE /\ outcome' = [outcome EXCEPT ![r] = "SandboxError"]
                 /\ UNCHANGED result
       ELSE /\ outcome' = [outcome EXCEPT ![r] = "ChannelDropped"]
            /\ UNCHANGED result
    /\ pc' = [pc EXCEPT ![r] = "done"]
    /\ stateLock' = Unlock(r)
    /\ UNCHANGED <<framerVars, relayVars, tokenVars, timerVars, walkerVars, evalCalls, inserts, token, clock, req, expected, id, pending, chan, msg, sandbox,
                   removedBy, cbArgs>>

Recv(r) ==
    /\ pc[r] = "wait"
    /\ chan[r] \in {"sent", "closed"}
    /\ IF chan[r] = "sent"
       THEN /\ outcome' = [outcome EXCEPT ![r] = "Ok"]
            /\ result' = [result EXCEPT ![r] = msg[r]]
       ELSE /\ outcome' = [outcome EXCEPT ![r] = "ChannelDropped"]
            /\ UNCHANGED result
    /\ pc' = [pc EXCEPT ![r] = "done"]
    /\ stateLock' = Unlock(r)
    /\ UNCHANGED <<framerVars, relayVars, tokenVars, timerVars, walkerVars, evalCalls, inserts, token, clock, req, expected, id, pending, chan, msg, sandbox,
                   removedBy, cbArgs>>

\* timeout(..).await completing with Err(Elapsed): the deadline passed and the
\* receiver was not ready when polled. The receiver is dropped with the future.
\* The deadline (10 s, 30 s in invoke) is positive, so the clock has advanced
\* since uuid_v4 read it.
Timeout(r) ==
    /\ pc[r] = "wait"
    /\ chan[r] = "open"
    /\ clock > id[r][1]
    /\ chan' = [chan EXCEPT ![r] = "rx_dropped"]
    /\ pc' = [pc EXCEPT ![r] = "evict"]
    /\ UNCHANGED <<framerVars, relayVars, tokenVars, timerVars, walkerVars, evalCalls, inserts, token, clock, req, expected, stateLock, id, pending, msg,
                   sandbox, outcome, result, removedBy, cbArgs>>

\* The Err(_) arm: pending.lock().await; pending.remove(&id); Err(GATEWAY_TIMEOUT).
Evict_NoRemove(r) ==
    /\ pc[r] = "evict"
    /\ pc' = [pc EXCEPT ![r] = "done"]
    /\ outcome' = [outcome EXCEPT ![r] = "Timeout"]
    /\ stateLock' = Unlock(r)
    /\ UNCHANGED <<framerVars, relayVars, tokenVars, timerVars, walkerVars, evalCalls, inserts, token, clock, req, expected, id, pending, chan, msg, sandbox,
                   result, removedBy, cbArgs>>

Evict_ReportsOk(r) ==
    /\ pc[r] = "evict"
    /\ LET k == id[r][1] IN
       /\ pending' = MapRemove(pending, k)
       /\ IF k \in DOMAIN pending
          THEN /\ removedBy' = [removedBy EXCEPT ![pending[k]] = @ \cup {"evict"}]
               /\ outcome' = [outcome EXCEPT ![r] = "Timeout"]
          ELSE /\ UNCHANGED removedBy
               /\ outcome' = [outcome EXCEPT ![r] = "Ok"]
    /\ pc' = [pc EXCEPT ![r] = "done"]
    /\ stateLock' = Unlock(r)
    /\ UNCHANGED <<framerVars, relayVars, tokenVars, timerVars, walkerVars, evalCalls, inserts, token, clock, req, expected, id, chan, msg, sandbox, result,
                   cbArgs>>

Evict(r) ==
    /\ pc[r] = "evict"
    /\ LET k == id[r][1] IN
       /\ pending' = MapRemove(pending, k)
       /\ IF k \in DOMAIN pending
          THEN removedBy' = [removedBy EXCEPT ![pending[k]] = @ \cup {"evict"}]
          ELSE UNCHANGED removedBy
    /\ pc' = [pc EXCEPT ![r] = "done"]
    /\ outcome' = [outcome EXCEPT ![r] = "Timeout"]
    /\ stateLock' = Unlock(r)
    /\ UNCHANGED <<framerVars, relayVars, tokenVars, timerVars, walkerVars, evalCalls, inserts, token, clock, req, expected, id, chan, msg, sandbox, result,
                   cbArgs>>

\* The arguments the wrapped frame of call s invokes eval_callback with: its id,
\* and success with the value or failure with the stringified exception.
FrameArgs(s, success) ==
    [id      |-> id[s][1],
     success |-> success,
     value   |-> IF success THEN Some(<<"value", s>>) ELSE None,
     error   |-> IF success THEN None ELSE Some(<<"error", s>>)]

\* The waiter a callback for id k completes: map.remove(&id).
Waiter_OrAny(map, k) ==
    IF k \in DOMAIN map THEN Some(map[k])
    ELSE IF DOMAIN map = {} THEN None
    ELSE Some(map[CHOOSE x \in DOMAIN map : TRUE])

Waiter(map, k) == IF k \in DOMAIN map THEN Some(map[k]) ELSE None

\* EvalResult { success, value, error } as eval_callback builds it from its arguments.
EvalResult_NoError(success, value, error) ==
    [success |-> success, value |-> value, error |-> None]

EvalResult(success, value, error) ==
    [success |-> success, value |-> value, error |-> error]

\* eval_callback(pending, id, success, value, error), invoked by the frame of s.
eval_callback(s, success) ==
    /\ s \in sandbox
    /\ sandbox' = sandbox \ {s}
    /\ LET args == FrameArgs(s, success)
           k == args.id
           res == EvalResult(args.success, args.value, args.error)
           w == Waiter(pending, k)
       IN IF w # None
          THEN /\ pending' = MapRemove(pending, k)
               /\ removedBy' = [removedBy EXCEPT ![w[1]] = @ \cup {"resolve"}]
               /\ IF chan[w[1]] = "open"
                  THEN /\ chan' = [chan EXCEPT ![w[1]] = "sent"]
                       /\ msg' = [msg EXCEPT ![w[1]] = Some(res)]
                       /\ cbArgs' = [cbArgs EXCEPT ![w[1]] = Some(args)]
                  ELSE UNCHANGED <<chan, msg, cbArgs>>   \* let _ = tx.send(..)
          ELSE UNCHANGED <<pending, removedBy, chan, msg, cbArgs>>
    /\ UNCHANGED <<framerVars, relayVars, tokenVars, timerVars, walkerVars, evalCalls, inserts, token, clock, req, expected, stateLock, id, pc, outcome, result>>

\* The wall clock advances (it never runs backwards in this model).
Tick ==
    /\ clock < MaxClock
    /\ clock' = clock + 1
    /\ UNCHANGED <<framerVars, relayVars, tokenVars, timerVars, walkerVars, evalCalls, inserts, token, req, pc, expected, stateLock, id, pending, chan, msg,
                   sandbox, outcome, result, removedBy, cbArgs>>

\* ------------------------------------------------------- InjectionFramer
\* Caller code is a sequence of lexemes; its text is their concatenation.
MaxCodeLen == 2

Whitespace == {" ", "\n"}

Lexemes ==
    {"return", "const", "let", "var", "if", "for", "while", "switch", "throw",
     "try", "class", "function", "async", " ", ";", "(", "{", "\n", "1"}

OnePlusOne == <<"1", " ", "+", " ", "1">>

IfTrueReturn ==
    <<"if", " ", "(", "true", ")", " ", "{", " ", "return", " ", "1", " ", "}">>

Examples ==
    {OnePlusOne, IfTrueReturn,
     <<"1", ";", " ", "return", " ", "1">>,
     <<"async", " ", "function">>,
     <<"1", "\n", "1">>,
     <<" ", "1", "\n", "return", " ", "1", "\n">>}

Codes == UNION {[1..n -> Lexemes] : n \in 0..MaxCodeLen} \cup Examples

FrameIds == 0..MaxClock

\* str::trim_start, str::trim_end, str::trim: strip leading and trailing whitespace.
RECURSIVE trim_start(_)
trim_start(s) ==
    IF s # <<>> /\ s[1] \in Whitespace THEN trim_start(Tail(s)) ELSE s

RECURSIVE trim_end(_)
trim_end(s) ==
    IF s # <<>> /\ s[Len(s)] \in Whitespace
    THEN trim_end(SubSeq(s, 1, Len(s) - 1)) ELSE s

trim(s) == trim_end(trim_start(s))

\* str::contains(char), str::starts_with(&str)
contains(s, c) == \E i \in 1..Len(s) : s[i] = c

starts_with(s, prefix) ==
    Len(prefix) <= Len(s) /\ SubSeq(s, 1, Len(prefix)) = prefix

\* let keywords = ["return ", "return;", "const ", ...];
keywords ==
    {<<"return", " ">>, <<"return", ";">>, <<"const", " ">>, <<"let", " ">>,
     <<"var", " ">>, <<"if", " ">>, <<"if", "(">>, <<"for", " ">>, <<"for", "(">>,
     <<"while", " ">>, <<"while", "(">>, <<"switch", " ">>, <<"switch", "(">>,
     <<"throw", " ">>, <<"try", " ">>, <<"try", "{">>, <<"class", " ">>,
     <<"function", " ">>, <<"async", " ", "function">>}

\* fn looks_like_expression(code: &str) -> bool
looks_like_expression_NoLineTest(code) ==
    LET trimmed == trim(code) IN
    ~ \E kw \in keywords : starts_with(trimmed, kw)

looks_like_expression(code) ==
    LET trimmed == trim(code) IN
    IF contains(trimmed, "\n") THEN FALSE
    ELSE ~ \E kw \in keywords : starts_with(trimmed, kw)

\* format!("return ({js_code})")
ImplicitReturn(code) == <<"return", " ", "(">> \o code \o <<")">>

\* let code_body = if looks_like_expression(js_code) {..} else { js_code.to_string() };
CodeBody(code) ==
    IF looks_like_expression(code) THEN ImplicitReturn(code) ELSE code

\* let wrapped = format!(r#"(async () => {{ try {{ .. }} catch(__e) {{ .. }} }})()"#,
\* code = code_body, id = id): the template with its two holes filled.
Frame(i, body) ==
    [try_code  |-> body,
     try_args  |-> [id |-> i, success |-> TRUE, value |-> "__result", error |-> "null"],
     catch_args |-> [id |-> i, success |-> FALSE, value |-> "null",
                     error |-> "__e.toString()"]]

InitFramer ==
    /\ js_code \in Codes
    /\ frameId \in FrameIds
    /\ code_body = None
    /\ wrapped = None
    /\ fpc = "unframed"
    /\ caught = None
    /\ hostCalls = <<>>

\* While the bridge is looked at on its own, no frame is being built.
InitNoFrame ==
    /\ js_code = <<>>
    /\ frameId = 0
    /\ code_body = None
    /\ wrapped = None
    /\ fpc = "off"
    /\ caught = None
    /\ hostCalls = <<>>

\* eval_with_result building the frame and handing it to window.eval.
FrameCode ==
    /\ fpc = "unframed"
    /\ code_body' = Some(CodeBody(js_code))
    /\ wrapped' = Some(Frame(frameId, CodeBody(js_code)))
    /\ fpc' = "try"
    /\ UNCHANGED <<bridgeVars, relayVars, tokenVars, timerVars, walkerVars, js_code, frameId, caught, hostCalls>>

\* What the caller's code does when the frame awaits it. A promise that never
\* settles is the frame staying at "try".
Behaviours == {"completes", "throws_error", "throws_null"}

\* const __result = await (async () => { code })();
UserCode(b) ==
    /\ fpc = "try"
    /\ IF b = "completes"
       THEN /\ fpc' = "invoke_success"
            /\ UNCHANGED caught
       ELSE /\ fpc' = "catch"
            /\ caught' = Some(IF b = "throws_null" THEN "null" ELSE "Error")
    /\ UNCHANGED <<bridgeVars, relayVars, tokenVars, timerVars, walkerVars, js_code, frameId, code_body, wrapped, hostCalls>>

\* await invoke('plugin:debug-bridge|eval_callback', {id, success: true, ..}) in
\* the try block: the command reaches the host, or invoke throws and the catch
\* clause takes over.
InvokeSuccess(reached) ==
    /\ fpc = "invoke_success"
    /\ IF reached
       THEN /\ hostCalls' = Append(hostCalls, wrapped[1].try_args)
            /\ fpc' = "end"
            /\ UNCHANGED caught
       ELSE /\ caught' = Some("InvokeError")
            /\ fpc' = "catch"
            /\ UNCHANGED hostCalls
    /\ UNCHANGED <<bridgeVars, relayVars, tokenVars, timerVars, walkerVars, js_code, frameId, code_body, wrapped>>

\* catch(__e): the argument object is built first, error: __e.toString(), which
\* throws a TypeError out of the catch clause when __e is null or undefined;
\* then invoke(.., {id, success: false, ..}), which reaches the host or throws.
InvokeFailure(reached) ==
    /\ fpc = "catch"
    /\ IF caught = Some("null")
       THEN /\ fpc' = "uncaught"
            /\ UNCHANGED hostCalls
       ELSE IF reached
            THEN /\ hostCalls' = Append(hostCalls, wrapped[1].catch_args)
                 /\ fpc' = "end"
            ELSE /\ fpc' = "uncaught"
                 /\ UNCHANGED hostCalls
    /\ UNCHANGED <<bridgeVars, relayVars, tokenVars, timerVars, walkerVars, js_code, frameId, code_body, wrapped, caught>>

NextFramer ==
    \/ FrameCode
    \/ \E b \in Behaviours : UserCode(b)
    \/ \E reached \in BOOLEAN : InvokeSuccess(reached)
    \/ \E reached \in BOOLEAN : InvokeFailure(reached)

\* --------------------------------------------------------- BroadcastRelay
\* The capacities are 256 (broadcast::channel(256)) and 64 (mpsc::channel(64))
\* in the source; the model runs the same code with small capacities.
ConsoleCapacity == 2

ListenerCapacity == 2

MaxMsgs == 4

Sockets == {"ws1", "ws2"}

EventNames == {"ready", "tick"}

\* The message the k-th publish carries. The tag k tells one publish from
\* another; the relays never look at it.
ConsoleMsg(k) == [seq |-> k, text |-> "console"]

\* serde_json::json!({"event": name_for_closure, "payload": event.payload()})
EventMsg(name, k) == [seq |-> k, text |-> name]

InitRelay ==
    /\ stream \in {"console", "events"}
    /\ published = <<>>
    /\ ring = <<>>
    /\ subState = [s \in Sockets |-> "off"]
    /\ conn = [s \in Sockets |-> "none"]
    /\ cursor = [s \in Sockets |-> 0]
    /\ listens = [s \in Sockets |-> None]
    /\ queue = [s \in Sockets |-> <<>>]
    /\ delivered = [s \in Sockets |-> <<>>]
    /\ hooked = FALSE
    /\ hookLayers = 0
    /\ consoleCalls = 0

\* While the bridge or the framer is looked at on its own, no stream is open.
InitNoRelay ==
    /\ stream = "off"
    /\ published = <<>>
    /\ ring = <<>>
    /\ subState = [s \in Sockets |-> "off"]
    /\ conn = [s \in Sockets |-> "none"]
    /\ cursor = [s \in Sockets |-> 0]
    /\ listens = [s \in Sockets |-> None]
    /\ queue = [s \in Sockets |-> <<>>]
    /\ delivered = [s \in Sockets |-> <<>>]
    /\ hooked = FALSE
    /\ hookLayers = 0
    /\ consoleCalls = 0

\* broadcast::Sender::send: the value takes the next slot of the buffer; when
\* the buffer is full the oldest value is overwritten. It never waits.
BroadcastSend_Unbounded(buf, m) == Append(buf, m)

BroadcastSend(buf, m) ==
    IF Len(buf) < ConsoleCapacity THEN Append(buf, m) ELSE Append(Tail(buf), m)

\* The values the buffer holds that receiver s has not passed yet.
Unread(s) == SelectSeq(ring, LAMBDA m : m.seq > cursor[s])

\* A receiver lags when a value it has not passed was overwritten.
Lagged(s) == ring # <<>> /\ ring[1].seq > cursor[s] + 1

\* CONSOLE_HOOK_JS: if (window.__debugBridgeConsoleHooked) return; otherwise set
\* the flag and wrap console.log/warn/error/info/debug once more. The result is
\* the flag and the number of wrappers around each console function.
CONSOLE_HOOK_JS_NoFlagTest(flag, layers) == <<TRUE, layers + 1>>

CONSOLE_HOOK_JS(flag, layers) ==
    IF flag THEN <<flag, layers>> ELSE <<TRUE, layers + 1>>

\* handle_console up to the subscription: the hook is injected when the main
\* window exists and window.eval runs it, then let mut rx =
\* console_tx.subscribe(). A new receiver starts at the tail of the buffer.
handle_console(s, injected) ==
    /\ stream = "console"
    /\ subState[s] = "off"
    /\ subState' = [subState EXCEPT ![s] = "subscribed"]
    /\ conn' = [conn EXCEPT ![s] = "open"]
    /\ cursor' = [cursor EXCEPT ![s] = Len(published)]
    /\ IF injected
       THEN /\ hooked' = CONSOLE_HOOK_JS(hooked, hookLayers)[1]
            /\ hookLayers' = CONSOLE_HOOK_JS(hooked, hookLayers)[2]
       ELSE UNCHANGED <<hooked, hookLayers>>
    /\ UNCHANGED <<bridgeVars, framerVars, tokenVars, timerVars, walkerVars, stream, published, ring, listens, queue,
                   delivered, consoleCalls>>

\* WebSocket::send: Err when the connection is gone.
SendOk(s) == conn[s] # "dead"

\* let _ = socket.send("console streaming connected").await; then the loop.
Greet(s) ==
    /\ subState[s] = "subscribed"
    /\ subState' = [subState EXCEPT ![s] = "streaming"]
    /\ delivered' = [delivered EXCEPT ![s] =
                        IF SendOk(s)
                        THEN Append(@, [seq |-> 0, text |-> "console streaming connected"])
                        ELSE @]
    /\ UNCHANGED <<bridgeVars, framerVars, tokenVars, timerVars, walkerVars, stream, published, ring, conn, cursor,
                   listens, queue, hooked, hookLayers, consoleCalls>>

\* console_callback n times: let _ = console_tx.send(msg.to_string()); Ok(())
RECURSIVE PublishConsole(_, _)
PublishConsole(state, n) ==
    IF n = 0 THEN state
    ELSE LET m == ConsoleMsg(Len(state[1]) + 1)
         IN PublishConsole(<<Append(state[1], m), BroadcastSend(state[2], m)>>, n - 1)

\* One console.log/warn/error/info/debug call in the hooked page: every wrapper
\* around the console function invokes the console_callback command once.
console_callback ==
    /\ stream = "console"
    /\ hookLayers > 0
    /\ Len(published) < MaxMsgs
    /\ consoleCalls' = consoleCalls + 1
    /\ published' = PublishConsole(<<published, ring>>, hookLayers)[1]
    /\ ring' = PublishConsole(<<published, ring>>, hookLayers)[2]
    /\ UNCHANGED <<bridgeVars, framerVars, tokenVars, timerVars, walkerVars, stream, subState, conn, cursor, listens,
                   queue, delivered, hooked, hookLayers>>

\* The select! branch Ok(msg) = rx.recv() of handle_console. recv returns
\* Err(Lagged) when values were overwritten and moves the receiver to the oldest
\* value held: the pattern does not match and the branch is disabled for this
\* select!, which is left with socket.recv() alone, or runs its else arm when
\* that branch is disabled too. Otherwise the value is sent to the socket; a
\* failed send ends the loop, a successful one starts the next round.
RelayConsole_NoAdvance(s) ==
    /\ stream = "console"
    /\ subState[s] \in {"streaming", "rx_only"}
    /\ Unread(s) # <<>>
    /\ IF Lagged(s)
       THEN /\ cursor' = [cursor EXCEPT ![s] = ring[1].seq - 1]
            /\ subState' = [subState EXCEPT ![s] =
                               IF @ = "streaming" THEN "awaiting_client" ELSE "closed"]
            /\ UNCHANGED delivered
       ELSE /\ cursor' = IF Len(delivered[s]) < 2
                         THEN cursor ELSE [cursor EXCEPT ![s] = Unread(s)[1].seq]
            /\ IF SendOk(s)
               THEN /\ delivered' = [delivered EXCEPT ![s] = Append(@, Unread(s)[1])]
                    /\ subState' = [subState EXCEPT ![s] = "streaming"]
               ELSE /\ subState' = [subState EXCEPT ![s] = "closed"]
                    /\ UNCHANGED delivered
    /\ UNCHANGED <<bridgeVars, framerVars, tokenVars, timerVars, walkerVars, stream, published, ring, conn, listens,
                   queue, hooked, hookLayers, consoleCalls>>

RelayConsole(s) ==
    /\ stream = "console"
    /\ subState[s] \in {"streaming", "rx_only"}
    /\ Unread(s) # <<>>
    /\ IF Lagged(s)
       THEN /\ cursor' = [cursor EXCEPT ![s] = ring[1].seq - 1]
            /\ subState' = [subState EXCEPT ![s] =
                               IF @ = "streaming" THEN "awaiting_client" ELSE "closed"]
            /\ UNCHANGED delivered
       ELSE /\ cursor' = [cursor EXCEPT ![s] = Unread(s)[1].seq]
            /\ IF SendOk(s)
               THEN /\ delivered' = [delivered EXCEPT ![s] = Append(@, Unread(s)[1])]
                    /\ subState' = [subState EXCEPT ![s] = "streaming"]
               ELSE /\ subState' = [subState EXCEPT ![s] = "closed"]
                    /\ UNCHANGED delivered
    /\ UNCHANGED <<bridgeVars, framerVars, tokenVars, timerVars, walkerVars, stream, published, ring, conn, listens,
                   queue, hooked, hookLayers, consoleCalls>>

\* handle_listen up to the loop: mpsc::channel(64), app.listen(&event_name, ..).
handle_listen(s, name) ==
    /\ stream = "events"
    /\ subState[s] = "off"
    /\ subState' = [subState EXCEPT ![s] = "streaming"]
    /\ conn' = [conn EXCEPT ![s] = "open"]
    /\ listens' = [listens EXCEPT ![s] = Some(name)]
    /\ UNCHANGED <<bridgeVars, framerVars, tokenVars, timerVars, walkerVars, stream, published, ring, cursor, queue,
                   delivered, hooked, hookLayers, consoleCalls>>

\* mpsc::Sender::try_send: Err(Full) when the channel holds its capacity, and
\* the value is dropped; it never waits.
try_send(q, m) == IF Len(q) < ListenerCapacity THEN Append(q, m) ELSE q

\* The listeners registered for an event: from app.listen until the handler
\* has left its loop and called app.unlisten.
Listening_AnyName(name) ==
    {s \in Sockets : subState[s] \in {"streaming", "rx_only"} /\ listens[s] # None}

Listening(name) ==
    {s \in Sockets : subState[s] \in {"streaming", "rx_only"} /\ listens[s] = Some(name)}

\* An event is emitted: the closure of every listener registered for its name
\* runs, let _ = tx.try_send(msg.to_string()).
EventFired_Blocking(name) ==
    /\ stream = "events"
    /\ Len(published) < MaxMsgs
    /\ \A s \in Listening(name) : Len(queue[s]) < ListenerCapacity
    /\ published' = Append(published, EventMsg(name, Len(published) + 1))
    /\ queue' = [s \in Sockets |->
                    IF s \in Listening(name)
                    THEN try_send(queue[s], EventMsg(name, Len(published) + 1))
                    ELSE queue[s]]
    /\ UNCHANGED <<bridgeVars, framerVars, tokenVars, timerVars, walkerVars, stream, ring, subState, conn, cursor,
                   listens, delivered, hooked, hookLayers, consoleCalls>>

EventFired(name) ==
    /\ stream = "events"
    /\ Len(published) < MaxMsgs
    /\ published' = Append(published, EventMsg(name, Len(published) + 1))
    /\ queue' = [s \in Sockets |->
                    IF s \in Listening(name)
                    THEN try_send(queue[s], EventMsg(name, Len(published) + 1))
                    ELSE queue[s]]
    /\ UNCHANGED <<bridgeVars, framerVars, tokenVars, timerVars, walkerVars, stream, ring, subState, conn, cursor,
                   listens, delivered, hooked, hookLayers, consoleCalls>>

\* The select! branch Some(msg) = rx.recv() of handle_listen: the message is
\* sent to the socket; a failed send ends the loop (and app.unlisten follows).
RelayEvent(s) ==
    /\ stream = "events"
    /\ subState[s] \in {"streaming", "rx_only"}
    /\ queue[s] # <<>>
    /\ queue' = [queue EXCEPT ![s] = Tail(@)]
    /\ IF SendOk(s)
       THEN /\ delivered' = [delivered EXCEPT ![s] = Append(@, Head(queue[s]))]
            /\ subState' = [subState EXCEPT ![s] = "streaming"]
       ELSE /\ subState' = [subState EXCEPT ![s] = "closed"]
            /\ UNCHANGED delivered
    /\ UNCHANGED <<bridgeVars, framerVars, tokenVars, timerVars, walkerVars, stream, published, ring, conn, cursor,
                   listens, hooked, hookLayers, consoleCalls>>

\* The client sends a frame that is not a Close frame and the select! branch
\* Some(Ok(msg)) = socket.recv() takes it: the next round of the loop starts,
\* with every branch enabled again.
ClientFrame(s) ==
    /\ subState[s] \in {"streaming", "awaiting_client"}
    /\ conn[s] = "open"
    /\ subState' = [subState EXCEPT ![s] = "streaming"]
    /\ UNCHANGED <<bridgeVars, framerVars, tokenVars, timerVars, walkerVars, stream, published, ring, conn, cursor,
                   listens, queue, delivered, hooked, hookLayers, consoleCalls>>

\* The client ends the connection: it sends a Close frame, or the socket is
\* closed without one.
Disconnect(s, how) ==
    /\ conn[s] = "open"
    /\ subState[s] # "closed"
    /\ conn' = [conn EXCEPT ![s] = how]
    /\ UNCHANGED <<bridgeVars, framerVars, tokenVars, timerVars, walkerVars, stream, published, ring, subState, cursor,
                   listens, queue, delivered, hooked, hookLayers, consoleCalls>>

\* The select! branch Some(Ok(msg)) = socket.recv() on an ended connection. A
\* Close frame matches and breaks the loop. A closed socket yields None or
\* Some(Err(_)): the pattern does not match, the branch is disabled and the
\* select! goes on waiting for rx.recv() alone, or runs else => break when
\* that branch is disabled as well.
SocketRecv(s) ==
    /\ subState[s] \in {"streaming", "awaiting_client"}
    /\ conn[s] \in {"close_sent", "dead"}
    /\ subState' = [subState EXCEPT ![s] =
                       IF conn[s] = "close_sent" \/ @ = "awaiting_client"
                       THEN "closed" ELSE "rx_only"]
    /\ UNCHANGED <<bridgeVars, framerVars, tokenVars, timerVars, walkerVars, stream, published, ring, conn, cursor,
                   listens, queue, delivered, hooked, hookLayers, consoleCalls>>

NextRelay ==
    \/ \E s \in Sockets : \E injected \in BOOLEAN : handle_console(s, injected)
    \/ \E s \in Sockets : Greet(s)
    \/ console_callback
    \/ \E s \in Sockets : RelayConsole(s)
    \/ \E s \in Sockets : \E name \in EventNames : handle_listen(s, name)
    \/ \E name \in EventNames : EventFired(name)
    \/ \E s \in Sockets : RelayEvent(s)
    \/ \E s \in Sockets : ClientFrame(s)
    \/ \E s \in Sockets : \E how \in {"close_sent", "dead"} : Disconnect(s, how)
    \/ \E s \in Sockets : SocketRecv(s)

\* ------------------------------------------------------------ auth token
\* [u8; 16]
TokenBytes == 16

U8 == 0..255

\* What thread_rng may draw: every byte value at every position of an
\* otherwise constant array, and every array over two byte values.
ByteBases == {0, 255}
ByteSamples == {10, 255}
ByteDraws ==
    {[[i \in 1..TokenBytes |-> base] EXCEPT ![k] = v] :
        base \in ByteBases, k \in 1..TokenBytes, v \in U8}
    \cup [1..TokenBytes -> ByteSamples]

HexDigits == <<"0", "1", "2", "3", "4", "5", "6", "7",
               "8", "9", "a", "b", "c", "d", "e", "f">>

\* char::is_ascii_hexdigit
is_ascii_hexdigit == {HexDigits[i] : i \in DOMAIN HexDigits}
                     \cup {"A", "B", "C", "D", "E", "F"}

\* {b:x}: the digits of b in base 16, most significant first, no leading zero.
RECURSIVE LowerHex(_)
LowerHex(b) ==
    IF b < Len(HexDigits) THEN <<HexDigits[b + 1]>>
    ELSE Append(LowerHex(b \div Len(HexDigits)), HexDigits[(b % Len(HexDigits)) + 1])

\* width with the 0 flag: zeros in front up to the width, never a cut.
RECURSIVE ZeroPad(_, _)
ZeroPad(digits, width) ==
    IF Len(digits) < width THEN ZeroPad(<<"0">> \o digits, width) ELSE digits

format_02x_NoWidth(b) == LowerHex(b)

\* format!("{b:02x}")
format_02x(b) == ZeroPad(LowerHex(b), 2)

\* bytes.iter().map(|b| format!("{b:02x}")).collect()
RECURSIVE Collect(_)
Collect(bytes) ==
    IF bytes = <<>> THEN <<>>
    ELSE format_02x(Head(bytes)) \o Collect(Tail(bytes))

generate_auth_token(bytes) == Collect(bytes)

InitToken ==
    /\ rngBytes = <<>>
    /\ authToken = None
    /\ routerToken = None
    /\ extSeen = None

\* While another component is looked at, the token is left out.
InitNoToken == InitToken

\* The plugin's setup closure: the token is generated and moved into
\* build_router, whose Extension layer keeps it.
setup ==
    /\ authToken = None
    /\ \E bytes \in ByteDraws :
          /\ rngBytes' = bytes
          /\ authToken' = Some(generate_auth_token(bytes))
          /\ routerToken' = Some(generate_auth_token(bytes))
    /\ extSeen' = None
    /\ UNCHANGED <<bridgeVars, framerVars, relayVars, timerVars, walkerVars>>

\* A request passes the Extension layer, which clones its AuthToken into the
\* request's extensions.
ExtensionLayer ==
    /\ routerToken # None
    /\ extSeen' = routerToken
    /\ UNCHANGED <<bridgeVars, framerVars, relayVars, timerVars, walkerVars, rngBytes, authToken, routerToken>>

NextToken ==
    \/ setup
    \/ ExtensionLayer

\* ------------------------------------------------------------- deadlines
\* Duration::from_secs(10) in eval_with_result
EvalTimeoutSecs == 10

\* Duration::from_secs(30) in invoke
InvokeTimeoutSecs == 30

\* How long the wait of one call is followed.
MaxElapsed == 31

\* A timeout a client may put into its request body, in seconds.
RequestedTimeouts == {None, Some(1), Some(20)}

\* The Duration the handler of a route hands to tokio::time::timeout. The
\* request structs have no timeout field and eval_with_result has no such
\* parameter: serde drops what the body asked for.
TimeoutFor(path, t) ==
    IF Route(path) = "invoke" THEN InvokeTimeoutSecs ELSE EvalTimeoutSecs

InitTimer ==
    /\ wpc = "idle"
    /\ callPath = None
    /\ requested = None
    /\ armed = None
    /\ elapsed = 0
    /\ armedBy = [p \in CallPaths |-> {}]

InitNoTimer ==
    /\ wpc = "off"
    /\ callPath = None
    /\ requested = None
    /\ armed = None
    /\ elapsed = 0
    /\ armedBy = [p \in CallPaths |-> {}]

\* tokio::time::timeout(Duration::from_secs(..), rx) of a call to route path
\* whose body asked for the timeout t.
ArmTimeout(path, t) ==
    /\ wpc \in {"idle", "returned", "timed_out"}
    /\ wpc' = "waiting"
    /\ callPath' = Some(path)
    /\ requested' = t
    /\ armed' = Some(TimeoutFor(path, t))
    /\ elapsed' = 0
    /\ armedBy' = [armedBy EXCEPT ![path] = @ \cup {TimeoutFor(path, t)}]
    /\ UNCHANGED <<bridgeVars, framerVars, relayVars, tokenVars, walkerVars>>

\* A second passes while the call waits.
Elapse ==
    /\ wpc = "waiting"
    /\ elapsed < MaxElapsed
    /\ elapsed' = elapsed + 1
    /\ UNCHANGED <<bridgeVars, framerVars, relayVars, tokenVars, walkerVars, wpc, callPath, requested, armed, armedBy>>

\* Ok(..): the receiver completed before the timer fired.
ReceiverReady ==
    /\ wpc = "waiting"
    /\ wpc' = "returned"
    /\ UNCHANGED <<bridgeVars, framerVars, relayVars, tokenVars, walkerVars, callPath, requested, armed, elapsed, armedBy>>

\* Err(Elapsed): the timer fires once the armed duration has passed.
TimerFired ==
    /\ wpc = "waiting"
    /\ elapsed >= armed[1]
    /\ wpc' = "timed_out"
    /\ UNCHANGED <<bridgeVars, framerVars, relayVars, tokenVars, walkerVars, callPath, requested, armed, elapsed, armedBy>>

NextTimer ==
    \/ \E path \in CallPaths, t \in RequestedTimeouts : ArmTimeout(path, t)
    \/ Elapse
    \/ ReceiverReady
    \/ TimerFired

\* ------------------------------------------------------ snapshot walker
MaxEls == 3
MaxMutations == 1

\* document.body and the elements below it.
Body == 0
Els == 1..MaxEls

INTERACTIVE_TAGS == {"a", "button", "input", "select", "textarea", "details",
                     "summary", "label", "option"}

INTERACTIVE_ROLES == {"button", "link", "textbox", "checkbox", "radio", "combobox",
                      "listbox", "menuitem", "tab", "switch", "slider", "spinbutton",
                      "searchbox", "option", "menuitemcheckbox", "menuitemradio",
                      "treeitem"}

SkipTags == {"script", "style", "noscript", "template"}

\* What the walker reads of an element: its tag, its role, tabindex and onclick
\* attributes, its own text, and whether its computed style shows it.
El(tag, role, tabindex, onclick, text, shown) ==
    [tag |-> tag, role |-> role, tabindex |-> tabindex, onclick |-> onclick,
     text |-> text, shown |-> shown]

\* The elements a page is built of here.
Kinds == {El("button", None, FALSE, FALSE, None, TRUE),
          El("button", None, FALSE, FALSE, None, FALSE),
          El("div", None, FALSE, FALSE, None, TRUE),
          El("div", None, FALSE, FALSE, Some("text"), TRUE),
          El("div", Some("button"), FALSE, FALSE, None, TRUE),
          El("div", Some("main"), FALSE, FALSE, None, TRUE),
          El("script", None, FALSE, FALSE, None, TRUE)}

BodyKind == El("body", None, FALSE, FALSE, None, TRUE)

\* A document: parent[e] is Body or an element created before e.
Parents == {p \in [Els -> {Body} \cup Els] : \A e \in Els : p[e] < e}

Documents == [parent : Parents, kind : [Els -> Kinds]]

KindOf(d, el) == IF el = Body THEN BodyKind ELSE d.kind[el]

\* el.children, in document order.
ElChildren(d, el) ==
    SelectSeq([i \in 1..MaxEls |-> i], LAMBDA c : d.parent[c] = el)

\* The elements of the subtree of el in document order (depth first, an element
\* before its children).
RECURSIVE DocOrder(_, _)
RECURSIVE DocOrderAll(_, _)
DocOrder(d, el) == <<el>> \o DocOrderAll(d, ElChildren(d, el))
DocOrderAll(d, cs) ==
    IF cs = <<>> THEN <<>> ELSE DocOrder(d, Head(cs)) \o DocOrderAll(d, Tail(cs))

isInteractive(k) ==
    \/ k.tag \in INTERACTIVE_TAGS
    \/ k.role # None /\ k.role[1] \in INTERACTIVE_ROLES
    \/ k.tabindex
    \/ k.onclick

isVisible_IgnoreStyle(el, k) == TRUE

isVisible(el, k) == el = Body \/ k.shown

getTextContent(k) == k.text

\* 'e' + (++refCounter)
RefId(n) == <<"e", n>>

RefFor_Every(interactive, n) == Some(RefId(n))

\* let ref_id = null; if (interactive) ref_id = 'e' + (++refCounter)
RefFor(interactive, n) == IF interactive THEN Some(RefId(n)) ELSE None

\* walkNode with the state it reads and writes threaded through: refCounter, the
\* data-debug-ref attributes, and (history) the elements given a ref, in order.
RECURSIVE walkNode(_, _, _)
RECURSIVE walkChildren(_, _, _, _)
walkNode_NoCollapse(d, el, st) ==
    LET k == KindOf(d, el) IN
    IF ~isVisible(el, k) \/ k.tag \in SkipTags THEN [node |-> None, st |-> st]
    ELSE
      LET interactive == isInteractive(k)
          ref_id == RefFor(interactive, st.refCounter + 1)
          st1 == IF interactive
                 THEN [refCounter |-> st.refCounter + 1,
                       marks |-> [st.marks EXCEPT ![el] = ref_id],
                       order |-> Append(st.order, el)]
                 ELSE st
          w == walkChildren(d, ElChildren(d, el), st1, <<>>)
          text == getTextContent(k)
      IN [node |-> Some([el |-> el, tag |-> k.tag, ref |-> ref_id,
                         interactive |-> interactive, role |-> k.role,
                         text |-> text, children |-> w.nodes]),
          st |-> w.st]

walkNode_CollapseSingleOnly(d, el, st) ==
    LET k == KindOf(d, el) IN
    IF ~isVisible(el, k) \/ k.tag \in SkipTags THEN [node |-> None, st |-> st]
    ELSE
      LET interactive == isInteractive(k)
          ref_id == RefFor(interactive, st.refCounter + 1)
          st1 == IF interactive
                 THEN [refCounter |-> st.refCounter + 1,
                       marks |-> [st.marks EXCEPT ![el] = ref_id],
                       order |-> Append(st.order, el)]
                 ELSE st
          w == walkChildren(d, ElChildren(d, el), st1, <<>>)
          text == getTextContent(k)
      IN
      IF ~interactive /\ text = None /\ Len(w.nodes) = 1 /\ k.role = None
      THEN [node |-> Some(w.nodes[1]), st |-> w.st]
      ELSE [node |-> Some([el |-> el, tag |-> k.tag, ref |-> ref_id,
                           interactive |-> interactive, role |-> k.role,
                           text |-> text, children |-> w.nodes]),
            st |-> w.st]

walkNode_PostOrder(d, el, st) ==
    LET k == KindOf(d, el) IN
    IF ~isVisible(el, k) \/ k.tag \in SkipTags THEN [node |-> None, st |-> st]
    ELSE
      LET interactive == isInteractive(k)
          w == walkChildren(d, ElChildren(d, el), st, <<>>)
          ref_id == RefFor(interactive, w.st.refCounter + 1)
          st1 == IF interactive
                 THEN [refCounter |-> w.st.refCounter + 1,
                       marks |-> [w.st.marks EXCEPT ![el] = ref_id],
                       order |-> Append(w.st.order, el)]
                 ELSE w.st
          text == getTextContent(k)
      IN
      IF ~interactive /\ text = None /\ Len(w.nodes) <= 1 /\ k.role = None
      THEN [node |-> IF w.nodes = <<>> THEN None ELSE Some(w.nodes[1]), st |-> st1]
      ELSE [node |-> Some([el |-> el, tag |-> k.tag, ref |-> ref_id,
                           interactive |-> interactive, role |-> k.role,
                           text |-> text, children |-> w.nodes]),
            st |-> st1]

walkNode(d, el, st) ==
    LET k == KindOf(d, el) IN
    IF ~isVisible(el, k) \/ k.tag \in SkipTags THEN [node |-> None, st |-> st]
    ELSE
      LET interactive == isInteractive(k)
          ref_id == RefFor(interactive, st.refCounter + 1)
          st1 == IF interactive
                 THEN [refCounter |-> st.refCounter + 1,
                       marks |-> [st.marks EXCEPT ![el] = ref_id],
                       order |-> Append(st.order, el)]
                 ELSE st
          w == walkChildren(d, ElChildren(d, el), st1, <<>>)
          text == getTextContent(k)
      IN
      IF ~interactive /\ text = None /\ Len(w.nodes) <= 1 /\ k.role = None
      THEN [node |-> IF w.nodes = <<>> THEN None ELSE Some(w.nodes[1]), st |-> w.st]
      ELSE [node |-> Some([el |-> el, tag |-> k.tag, ref |-> ref_id,
                           interactive |-> interactive, role |-> k.role,
                           text |-> text, children |-> w.nodes]),
            st |-> w.st]

walkChildren(d, cs, st, nodes) ==
    IF cs = <<>> THEN [nodes |-> nodes, st |-> st]
    ELSE LET r == walkNode(d, Head(cs), st) IN
         walkChildren(d, Tail(cs), r.st,
                      IF r.node = None THEN nodes ELSE Append(nodes, r.node[1]))

SNAPSHOT_JS_KeepCounter(d, m) ==
    LET used == {n \in 0..MaxEls : n = 0 \/ \E e \in DOMAIN m : m[e] = Some(RefId(n))}
        top == CHOOSE n \in used : \A o \in used : o <= n
        w == walkNode(d, Body, [refCounter |-> top, marks |-> m, order |-> <<>>])
        tree == w.node
    IN [tree |-> tree,
        elements |-> IF tree = None THEN <<>>
                     ELSE IF tree[1].children # <<>> THEN tree[1].children
                     ELSE <<tree[1]>>,
        marks |-> w.st.marks,
        order |-> w.st.order]

\* SNAPSHOT_JS run in a page whose elements carry the attributes m.
SNAPSHOT_JS(d, m) ==
    LET w == walkNode(d, Body, [refCounter |-> 0, marks |-> m, order |-> <<>>])
        tree == w.node
    IN [tree |-> tree,
        elements |-> IF tree = None THEN <<>>
                     ELSE IF tree[1].children # <<>> THEN tree[1].children
                     ELSE <<tree[1]>>,
        marks |-> w.st.marks,
        order |-> w.st.order]

\* client.rs: the URL the CLI requests.
SnapshotUrl(interactive) ==
    IF interactive THEN <<"/snapshot", "?interactive=true">> ELSE <<"/snapshot">>

\* document.querySelector('[data-debug-ref="<ref>"]'): the first match in
\* document order.
querySelector(d, m, ref) ==
    LET hits == SelectSeq(DocOrder(d, Body), LAMBDA e : m[e] = Some(ref))
    IN IF hits = <<>> THEN None ELSE Some(hits[1])

\* The selectors "@e1", "@e2", ...
RefSelectors == {<<"@">> \o RefId(n) : n \in 1..MaxEls}

InitWalker ==
    /\ doc \in {Some(d) : d \in Documents}
    /\ marks = [e \in {Body} \cup Els |-> None]
    /\ last = None
    /\ prev = None
    /\ changed = FALSE
    /\ mutations = 0
    /\ lastAction = None

InitNoWalker ==
    /\ doc = None
    /\ marks = [e \in {Body} \cup Els |-> None]
    /\ last = None
    /\ prev = None
    /\ changed = FALSE
    /\ mutations = 0
    /\ lastAction = None

\* GET /snapshot as the CLI sends it: the handler has no query extractor, runs
\* SNAPSHOT_JS and returns what it yields.
snapshot(interactive) ==
    /\ doc # None
    /\ LET url == SnapshotUrl(interactive)
           res == SNAPSHOT_JS(doc[1], marks)
       IN /\ marks' = res.marks
          /\ Head(url) = "/snapshot"     \* the route; no Query extractor reads the rest
          /\ last' = Some([tree |-> res.tree,
                           elements |-> res.elements,
                           order |-> res.order,
                           unchanged |-> last # None /\ ~changed])
    /\ prev' = IF last = None THEN None
               ELSE Some([tree |-> last[1].tree,
                          elements |-> last[1].elements,
                          order |-> last[1].order])
    /\ changed' = FALSE
    /\ lastAction' = None
    /\ UNCHANGED <<bridgeVars, framerVars, relayVars, tokenVars, timerVars, doc, mutations>>

\* The page changes an element's style: it hides the element or shows it.
Mutate(e, shown) ==
    /\ doc # None
    /\ mutations < MaxMutations
    /\ shown # doc[1].kind[e].shown
    /\ doc' = Some([doc[1] EXCEPT !.kind[e].shown = shown])
    /\ changed' = TRUE
    /\ mutations' = mutations + 1
    /\ lastAction' = None
    /\ UNCHANGED <<bridgeVars, framerVars, relayVars, tokenVars, timerVars, marks, last, prev>>

\* The element a by-ref selector resolves to and the calls made on it.
ByRef(op, selector) ==
    LET el == querySelector(doc[1], marks, Tail(selector))
        n == selector[3]
    IN [op |-> op,
        invoked |-> IF el = None THEN <<>> ELSE <<el[1]>>,
        assigned |-> IF last # None /\ n <= Len(last[1].order)
                     THEN Some(last[1].order[n]) ELSE None]

\* POST /click with a selector starting with '@'.
click(selector) ==
    /\ doc # None
    /\ Head(selector) = "@"
    /\ lastAction' = Some(ByRef("click", selector))
    /\ UNCHANGED <<bridgeVars, framerVars, relayVars, tokenVars, timerVars, doc, marks, last, prev, changed, mutations>>

\* POST /fill with a selector starting with '@'.
fill(selector) ==
    /\ doc # None
    /\ Head(selector) = "@"
    /\ lastAction' = Some(ByRef("fill", selector))
    /\ UNCHANGED <<bridgeVars, framerVars, relayVars, tokenVars, timerVars, doc, marks, last, prev, changed, mutations>>

NextWalker ==
    \E interactive \in BOOLEAN : snapshot(interactive)

NextRefs ==
    \/ \E interactive \in BOOLEAN : snapshot(interactive)
    \/ \E e \in Els, shown \in BOOLEAN : Mutate(e, shown)
    \/ \E selector \in RefSelectors : click(selector)
    \/ \E selector \in RefSelectors : fill(selector)

Init == InitBridge /\ InitNoFrame /\ InitNoRelay /\ InitNoToken /\ InitNoTimer /\ InitNoWalker

InitFramerSpec == InitBridge /\ InitFramer /\ InitNoRelay /\ InitNoToken /\ InitNoTimer /\ InitNoWalker

InitRelaySpec == InitBridge /\ InitNoFrame /\ InitRelay /\ InitNoToken /\ InitNoTimer /\ InitNoWalker

InitTokenSpec == InitBridge /\ InitNoFrame /\ InitNoRelay /\ InitToken /\ InitNoTimer /\ InitNoWalker

InitTimerSpec == InitBridge /\ InitNoFrame /\ InitNoRelay /\ InitNoToken /\ InitTimer /\ InitNoWalker

SpecTimer == InitTimerSpec /\ [][NextTimer]_vars

InitWalkerSpec ==
    InitBridge /\ InitNoFrame /\ InitNoRelay /\ InitNoToken /\ InitNoTimer /\ InitWalker

SpecWalker == InitWalkerSpec /\ [][NextWalker]_vars

SpecRefs == InitWalkerSpec /\ [][NextRefs]_vars

SpecToken == InitTokenSpec /\ [][NextToken]_vars

SpecRelay == InitRelaySpec /\ [][NextRelay]_vars

\* The handler tasks are scheduled by the tokio runtime: a handler whose select!
\* has a ready branch, or whose greeting is due, runs. Nothing makes a client
\* send frames or the application publish.
SpecRelayFair ==
    /\ SpecRelay
    /\ \A s \in Sockets :
          /\ WF_vars(Greet(s))
          /\ WF_vars(RelayConsole(s))
          /\ WF_vars(RelayEvent(s))
          /\ WF_vars(SocketRecv(s))

SpecFramer == InitFramerSpec /\ [][NextFramer]_vars

Next ==
    \/ \E r \in Reqs : \E p \in Paths, h \in Headers : Request(r, p, h)
    \/ \E r \in Reqs : health(r)
    \/ \E r \in Reqs : emit(r)
    \/ \E r \in Reqs : LockState(r)
    \/ \E r \in Reqs : \E found \in BOOLEAN : get_window(r, found)
    \/ \E r \in Reqs : NewCall(r)
    \/ \E r \in Reqs : Register(r)
    \/ \E r \in Reqs : \E ok \in BOOLEAN : Eval(r, ok)
    \/ \E r \in Reqs : Recv(r)
    \/ \E r \in Reqs : Timeout(r)
    \/ \E r \in Reqs : Evict(r)
    \/ \E s \in Reqs : \E success \in BOOLEAN : eval_callback(s, success)
    \/ Tick

Spec == Init /\ [][Next]_vars

\* ------------------------------------------------------------------ claims
Registered(r) == pc[r] \in {"eval", "wait", "evict"}
                 \/ outcome[r] \in {"InjectionFailed", "Ok", "ChannelDropped", "Timeout"}

InRegistry(r) == id[r] # None /\ id[r][1] \in DOMAIN pending

\* C1: every id a call inserted is removed exactly once, by the callback or by
\* the call's own eviction, never both and never neither; once the call has
\* returned, with any outcome, the registry holds no entry for its id.
C1_EntryRemovedExactlyOnce ==
    \A r \in Reqs :
        (pc[r] = "done" /\ Registered(r)) =>
            /\ ~InRegistry(r)
            /\ removedBy[r] \in {{"resolve"}, {"evict"}}

\* C2: when window.eval fails for a call that has registered its id, the call
\* evicts its own registry entry and returns the injection error.
C2_InjectionFailureEvicts ==
    \A r \in Reqs :
        outcome[r] = "InjectionFailed" => (~InRegistry(r) /\ removedBy[r] = {"evict"})

\* C3: a request to an endpoint other than /health whose token header is missing
\* or differs from the startup token is answered Unauthorized and reaches no
\* route handler (no registry insertion, no Eval, no event emission).
C3_BadTokenNeverReachesHandler ==
    \A r \in Reqs :
        (req[r] # None /\ req[r][1].route # "health" /\ req[r][1].header # token) =>
            (pc[r] = "done" /\ outcome[r] = "Unauthorized" /\ id[r] = None)

\* C4: a request is let through to its handler when it targets /health or when
\* its header equals the startup token, and the token the middleware compares
\* against is the startup token.
C4_GoodTokenLetThrough ==
    \A r \in Reqs :
        req[r] # None =>
            /\ (req[r][1].route = "health" \/ req[r][1].header = token)
                   => outcome[r] # "Unauthorized"
            /\ expected[r] # None => expected[r] = Some(token)

\* C5: when a call has returned Timeout its registry entry is gone, and no
\* entry for its id exists in the registry at any later time.
C5_TimeoutLeavesNoEntry ==
    \A r \in Reqs : outcome[r] = "Timeout" => ~InRegistry(r)

\* C5 witness: a call timed out and evicted its entry, and a later call is
\* registered and waiting.
C5_Witness ==
    \E r, o \in Reqs :
        /\ outcome[r] = "Timeout" /\ removedBy[r] = {"evict"}
        /\ pc[o] = "wait" /\ InRegistry(o)

\* C6: a callback whose id is not in the registry (already evicted or already
\* resolved) completes no waiter and changes no entry and no call's outcome;
\* a timeout eviction of an id a callback already removed changes no entry and
\* no other call.
C6_RemovalOfAbsentIdIsNoOp ==
    [][ /\ \A s \in Reqs :
              (s \in sandbox /\ s \notin sandbox' /\ ~InRegistry(s)) =>
                  /\ pending' = pending /\ chan' = chan /\ msg' = msg
                  /\ outcome' = outcome /\ result' = result /\ pc' = pc
        /\ \A r \in Reqs :
              (pc[r] = "evict" /\ pc'[r] = "done" /\ ~InRegistry(r)) =>
                  /\ pending' = pending /\ chan' = chan /\ msg' = msg
                  /\ result' = result
                  /\ \A o \in Reqs \ {r} : outcome'[o] = outcome[o] /\ pc'[o] = pc[o]
      ]_vars

\* C6 witness: the frame of a call that was evicted by its timeout has called
\* back, while another call is registered and still waiting.
C6_Witness ==
    \E r, o \in Reqs :
        /\ outcome[r] = "Timeout" /\ removedBy[r] = {"evict"} /\ r \notin sandbox
        /\ pc[o] = "wait" /\ chan[o] = "open" /\ InRegistry(o)

\* C7: the outcome a resolved call returns is the (success, value, error) of the
\* callback whose id equals the call's id.
C7_ResolvedByOwnCallback ==
    \A r \in Reqs :
        outcome[r] = "Ok" =>
            /\ cbArgs[r] # None
            /\ cbArgs[r][1].id = id[r][1]
            /\ result[r] = Some([success |-> cbArgs[r][1].success,
                                 value   |-> cbArgs[r][1].value,
                                 error   |-> cbArgs[r][1].error])

\* C7 witness: a call was resolved with a failure outcome, and the frame of
\* another call, carrying another id, has called back too.
C7_Witness ==
    \E r, o \in Reqs :
        /\ outcome[r] = "Ok" /\ ~result[r][1].success
        /\ o # r /\ id[o] # None /\ id[o] # id[r]
        /\ outcome[o] = "Timeout" /\ o \notin sandbox

\* C8: no two calls in flight at the same time have the same id, registering a
\* call never overwrites another call's waiter, and an id is not given out
\* while a registration under it is still outstanding.
C8_IdsNeverCollide ==
    /\ \A r, o \in Reqs :
          (r # o /\ pc[r] \in {"insert", "eval", "wait", "evict"}
                 /\ pc[o] \in {"insert", "eval", "wait", "evict"}) => id[r] # id[o]
    /\ \A r \in Reqs : "overwrite" \notin removedBy[r]
    /\ \A r \in Reqs : pc[r] = "insert" => ~InRegistry(r)

\* C9: calls run concurrently: a call that has reached its handler never has to
\* wait for another call's resolution or timeout before it starts.
C9_CallStartsWithoutWaiting ==
    \A r \in Reqs :
        (pc[r] = "handler" /\ req[r][1].route \in CallRoutes) => ENABLED LockState(r)

\* C10: the terminal states of a call are mutually exclusive: no call is both
\* resolved by a callback (its entry removed by eval_callback) and reported to
\* its caller as timed out.
C10_ResolvedAndTimedOutExclusive ==
    \A r \in Reqs : ~(outcome[r] = "Timeout" /\ "resolve" \in removedBy[r])

\* C11: a call whose deadline passed before its callback arrived returns
\* Timeout and nothing else, also when the callback arrives afterwards (before
\* or after the eviction); the late callback's outcome never reaches the caller.
C11_DeadlinePassedReturnsTimeout ==
    [][ \A r \in Reqs :
          /\ pc[r] = "evict" =>
                 \/ pc'[r] = "evict" /\ outcome'[r] = outcome[r]
                 \/ pc'[r] = "done" /\ outcome'[r] = "Timeout"
          /\ (pc[r] = "evict" \/ outcome[r] = "Timeout") =>
                 /\ result'[r] = None /\ msg'[r] = None
                 /\ outcome[r] = "Timeout" => (outcome'[r] = "Timeout" /\ pc'[r] = "done")
      ]_vars

\* C11 witness: a call returned Timeout and its frame called back after the
\* deadline had passed; the caller holds no result.
C11_Witness ==
    \E r \in Reqs :
        /\ outcome[r] = "Timeout" /\ r \notin sandbox
        /\ result[r] = None /\ cbArgs[r] = None

C12_OneEvalOneEntryPerCall ==
    \A r \in Reqs :
        /\ evalCalls[r] \in {0, 1}
        /\ inserts[r] \in {0, 1}
        /\ evalCalls[r] <= inserts[r]
        /\ (pc[r] \in {"wait", "evict"}
               \/ outcome[r] \in {"InjectionFailed", "Ok", "ChannelDropped", "Timeout"})
              <=> evalCalls[r] = 1
        /\ Registered(r) <=> inserts[r] = 1

\* C12 witness: one call timed out, another failed to inject, and each has
\* invoked window.eval once.
C12_Witness ==
    \E r, o \in Reqs :
        /\ outcome[r] = "Timeout" /\ evalCalls[r] = 1 /\ inserts[r] = 1
        /\ outcome[o] = "InjectionFailed" /\ evalCalls[o] = 1 /\ inserts[o] = 1

\* C14: one execution of a framed snippet invokes the host callback exactly
\* once, never zero times and never twice: with success true when the user code
\* completed, with success false when it threw, whatever the user code does
\* and whether or not an invocation of the callback itself throws.
C14_ExactlyOneCallbackPerFrame ==
    fpc \in {"end", "uncaught"} =>
        /\ Len(hostCalls) = 1
        /\ hostCalls[1].id = frameId
        /\ hostCalls[1].success = (caught \notin {Some("Error"), Some("null")})

\* The keywords the heuristic is described with.
StatementKeywords ==
    {"return", "const", "let", "var", "if", "for", "while", "switch", "throw",
     "try", "class", "function"}

\* C15: the code is wrapped in an implicit return exactly when it is a single
\* line containing none of the statement keywords, and is passed through
\* unmodified in every other case; "1 + 1" is wrapped and
\* "if (true) { return 1 }" is passed through.
C15_WrappedIffSingleLineWithoutKeyword ==
    code_body # None =>
        LET bare == /\ ~contains(js_code, "\n")
                    /\ \A i \in 1..Len(js_code) : js_code[i] \notin StatementKeywords
        IN /\ code_body[1] = IF bare THEN ImplicitReturn(js_code) ELSE js_code
           /\ js_code = OnePlusOne => code_body[1] = ImplicitReturn(js_code)
           /\ js_code = IfTrueReturn => code_body[1] = js_code

\* C16 as stated: a snippet containing a line break anywhere, also only at its
\* start or end, is passed through unmodified.
C16_AnyLineBreakPassedThrough ==
    (code_body # None /\ contains(js_code, "\n")) =>
        (code_body[1] = js_code /\ wrapped[1].try_code = js_code)

\* C16 amended: a snippet that still contains a line break once its leading and
\* trailing whitespace is trimmed is passed through unmodified, whatever else
\* it contains.
C16_InnerLineBreakPassedThrough ==
    (code_body # None /\ contains(trim(js_code), "\n")) =>
        (code_body[1] = js_code /\ wrapped[1].try_code = js_code)

\* C16 witness: a framed snippet with a line break between two expressions and
\* no statement keyword at its start.
C16_Witness ==
    /\ code_body # None
    /\ contains(trim(js_code), "\n")
    /\ ~ \E kw \in keywords : starts_with(trim(js_code), kw)
    /\ code_body[1] = js_code

\* The messages held for socket s and not yet sent to it, and the capacity of
\* the queue that holds them.
Held(s) == IF stream = "console" THEN Unread(s) ELSE queue[s]

Capacity == IF stream = "console" THEN ConsoleCapacity ELSE ListenerCapacity

Subscribed(s) ==
    subState[s] \in {"subscribed", "streaming", "awaiting_client", "rx_only"}

\* C18: publishing never waits for a subscriber: console_callback and the event
\* listener closure can run whatever state the subscribers are in, and a
\* publish puts its message at the end of the queue of every subscriber whose
\* own queue has room, whether or not another subscriber has stopped reading.
C18_PublishNeverWaitsForSubscriber ==
    /\ [](Len(published) < MaxMsgs =>
             /\ (stream = "console" /\ hookLayers > 0) => ENABLED console_callback
             /\ stream = "events" => \A name \in EventNames : ENABLED EventFired(name))
    /\ [][ published' # published =>
              LET m == published'[Len(published')] IN
              \A s \in Sockets :
                  (/\ Subscribed(s)
                   /\ stream = "events" => listens[s] = Some(m.text)
                   /\ Len(Held(s)) < Capacity)
                      => (Held(s))' = Append(Held(s), m)
         ]_vars

\* C18 witness: one console subscriber stopped reading and has lost messages,
\* the other was sent every message published.
C18_Witness ==
    \E r, s \in Sockets :
        /\ stream = "console" /\ r # s
        /\ subState[s] = "streaming" /\ Lagged(s) /\ Len(delivered[s]) = 1
        /\ subState[r] = "streaming"
        /\ delivered[r] = <<[seq |-> 0, text |-> "console streaming connected"]>>
                              \o published
        /\ Len(published) > ConsoleCapacity

\* The relayed messages socket s was sent (the greeting is not one of them).
Relayed(s) == SelectSeq(delivered[s], LAMBDA m : m.seq > 0)

\* C19: the messages a subscriber is sent are a subsequence of the published
\* sequence: each is a published message, they are in publish order, and none
\* is sent twice.
C19_DeliveredInPublishOrder ==
    \A s \in Sockets :
        /\ \A i \in 1..Len(Relayed(s)) :
              /\ Relayed(s)[i].seq \in 1..Len(published)
              /\ Relayed(s)[i] = published[Relayed(s)[i].seq]
        /\ \A i, j \in 1..Len(Relayed(s)) :
              i < j => Relayed(s)[i].seq < Relayed(s)[j].seq
        /\ \A i \in 1..Len(delivered[s]) : delivered[s][i].seq = 0 => i = 1
        /\ \A i \in 1..Len(Held(s)) :
              Relayed(s) # <<>> => Relayed(s)[Len(Relayed(s))].seq < Held(s)[i].seq

\* C19 witness: a subscriber that dropped a message was sent messages from
\* before and after the gap.
C19_Witness ==
    \E s \in Sockets :
        /\ Len(Relayed(s)) >= 2
        /\ \E i \in 1..(Len(Relayed(s)) - 1) :
              Relayed(s)[i + 1].seq > Relayed(s)[i].seq + 1
        /\ \A k \in 1..Len(published) :
              stream = "events" => published[k].text = listens[s][1]

\* C20: the queue of a subscription is bounded by its capacity (the broadcast
\* buffer for the console stream, the mpsc channel of an event listener), and
\* a publish that finds the queue of one subscriber full drops a message for
\* that subscriber only: every other subscriber with room gets the message and
\* keeps what it held.
C20_QueueBoundedDropOwnOnly ==
    /\ [](/\ Len(ring) <= ConsoleCapacity
          /\ \A s \in Sockets : Len(Held(s)) <= Capacity)
    /\ [][ published' # published =>
              LET m == published'[Len(published')] IN
              \A s, o \in Sockets :
                  (/\ Subscribed(s) /\ Subscribed(o) /\ s # o
                   /\ stream = "events" =>
                          (listens[s] = Some(m.text) /\ listens[o] = Some(m.text))
                   /\ Len(Held(s)) = Capacity
                   /\ Len(Held(o)) < Capacity)
                      => /\ Len((Held(s))') = Capacity
                         /\ (Held(o))' = Append(Held(o), m)
                         /\ \/ (Held(s))' = Held(s)
                            \/ (Held(s))' = Append(Tail(Held(s)), m)
         ]_vars

\* C20 witness: a message was published while the queue of one subscriber was
\* full and the queue of another had room; the first lost a message, the
\* other holds the new one.
C20_Witness ==
    \E s, o \in Sockets :
        /\ s # o /\ published # <<>>
        /\ Subscribed(s) /\ Subscribed(o)
        /\ Len(Held(s)) = Capacity
        /\ Held(o) # <<>> /\ Len(Held(o)) < Capacity
        /\ Held(o)[Len(Held(o))] = published[Len(published)]
        /\ \/ Lagged(s)
           \/ /\ stream = "events" /\ listens[s] = listens[o]
              /\ Held(s)[Len(Held(s))] # published[Len(published)]

\* C22: a subscriber of the event stream named N is sent, and has queued, only
\* messages of events emitted under N, each labelled N; an event emitted under
\* another name never reaches it.
C22_OnlyEventsOfOwnName ==
    \A s \in Sockets :
        (stream = "events" /\ listens[s] # None) =>
            /\ \A i \in 1..Len(delivered[s]) :
                  /\ delivered[s][i].text = listens[s][1]
                  /\ delivered[s][i] = published[delivered[s][i].seq]
            /\ \A i \in 1..Len(queue[s]) :
                  /\ queue[s][i].text = listens[s][1]
                  /\ queue[s][i] = published[queue[s][i].seq]

\* C22 witness: events were emitted under two names while a listener of one
\* of them was registered, and it was sent an event emitted after one of the
\* other name.
C22_Witness ==
    \E s \in Sockets :
        /\ stream = "events" /\ listens[s] # None
        /\ delivered[s] # <<>>
        /\ \E k \in 1..Len(published) :
              /\ published[k].text # listens[s][1]
              /\ k < delivered[s][Len(delivered[s])].seq
              /\ k > delivered[s][1].seq

\* C21: after the connection of a subscriber ended (Close frame or closed
\* socket) its handler eventually leaves its loop, unregistering the event
\* listener or dropping the broadcast receiver.
C21_EndedConnectionIsUnsubscribed ==
    \A s \in Sockets :
        (conn[s] \in {"close_sent", "dead"}) ~> (subState[s] = "closed")

\* C29: installing the console hook is idempotent: however many console
\* streams were opened, each console function has one wrapper, and every
\* console call in the page makes exactly one publish.
C29_HookInstalledOnce ==
    stream = "console" =>
        /\ hookLayers <= 1
        /\ hooked <=> hookLayers = 1
        /\ Len(published) = consoleCalls
        /\ \A k \in 1..Len(published) : published[k].seq = k

\* C29 witness: two console streams injected the hook into the same page, a
\* console call was made after the second injection and both subscribers
\* were sent its line once.
C29_Witness ==
    /\ stream = "console" /\ hooked /\ consoleCalls = 1
    /\ \A s \in Sockets :
          /\ subState[s] = "streaming" /\ conn[s] = "open"
          /\ Relayed(s) = published

\* C28: the token generate_auth_token returns is exactly 32 characters long,
\* every one a hexadecimal digit, two for each of the 16 random bytes; the
\* setup generates one token, and the router holds that token, unchanged, for as
\* long as the process serves requests.
C28_TokenIs32HexDigitsAndKept ==
    /\ [](authToken # None =>
            /\ Len(authToken[1]) = 32
            /\ \A i \in 1..Len(authToken[1]) : authToken[1][i] \in is_ascii_hexdigit
            /\ \A k \in 1..TokenBytes :
                  SubSeq(authToken[1], 2 * k - 1, 2 * k) = format_02x(rngBytes[k])
            /\ routerToken = authToken
            /\ extSeen \in {None, authToken})
    /\ [][authToken # None => authToken' = authToken /\ routerToken' = routerToken]_vars

C28_Witness ==
    /\ authToken # None
    /\ extSeen = authToken
    /\ \E k \in 1..TokenBytes : rngBytes[k] < 16
    /\ \E k \in 1..TokenBytes : rngBytes[k] >= 16

\* C27: the deadline a call to /eval is armed with is strictly longer than the
\* deadline a call to /click or /fill is armed with, and a call whose request
\* names a timeout is armed with that timeout.
C27_EvalDeadlineLongerAndPerCall ==
    /\ \A d \in armedBy["/eval"] :
          \A u \in armedBy["/click"] \cup armedBy["/fill"] : d > u
    /\ (wpc = "waiting" /\ requested # None) => armed = requested

\* The nodes of a tree, the node itself first.
RECURSIVE Reached(_, _)
RECURSIVE TreeNodes(_)
RECURSIVE ForestNodes(_)
TreeNodes(node) == <<node>> \o ForestNodes(node.children)
ForestNodes(nodes) ==
    IF nodes = <<>> THEN <<>> ELSE TreeNodes(Head(nodes)) \o ForestNodes(Tail(nodes))

\* The nodes of the tree the latest walk built, and of the elements returned.
WalkedNodes == IF last[1].tree = None THEN <<>> ELSE TreeNodes(last[1].tree[1])
ReturnedNodes == ForestNodes(last[1].elements)

\* C23: in every snapshot tree, the one the walk builds and the elements the
\* response returns, a node carries a ref exactly when its interactive flag is
\* true, and the flag is the classification of the node's element.
C23_RefIffInteractive ==
    last # None =>
        \A nodes \in {WalkedNodes, ReturnedNodes} :
            \A i \in 1..Len(nodes) :
                /\ nodes[i].ref # None <=> nodes[i].interactive
                /\ nodes[i].interactive <=> isInteractive(KindOf(doc[1], nodes[i].el))

C23_Witness ==
    /\ last # None
    /\ \E i, j \in 1..Len(ReturnedNodes) :
          /\ ReturnedNodes[i].ref # None
          /\ ReturnedNodes[j].ref = None
          /\ ReturnedNodes[j].children # <<>>

\* The elements the walk reaches: shown and not of a skipped tag, and so is
\* every element above them.
Reached(d, e) ==
    /\ isVisible(e, KindOf(d, e))
    /\ KindOf(d, e).tag \notin SkipTags
    /\ e # Body => Reached(d, d.parent[e])

\* The reached interactive elements in document order.
VisibleInteractive(d) ==
    SelectSeq(DocOrder(d, Body),
              LAMBDA e : Reached(d, e) /\ isInteractive(KindOf(d, e)))

\* C24: a snapshot gives the visible interactive elements, taken in document
\* order (depth first, an element before its children), the refs e1, e2, ..., en:
\* no gap, no duplicate, starting at e1 in every snapshot; the k-th of them is
\* marked ek and the nodes of the tree carry e1..en in that order.
C24_RefsNumberedInDocumentOrder ==
    last # None =>
        LET order == last[1].order
            refs == SelectSeq(WalkedNodes, LAMBDA nd : nd.ref # None)
        IN /\ order = VisibleInteractive(doc[1])
           /\ \A k \in 1..Len(order) : marks[order[k]] = Some(RefId(k))
           /\ Len(refs) = Len(order)
           /\ \A k \in 1..Len(refs) :
                 refs[k].ref = Some(RefId(k)) /\ refs[k].el = order[k]

\* C24 witness: a second snapshot numbered three interactive elements, the
\* second of them a child of the first and the third a sibling of the first.
C24_Witness ==
    /\ last # None /\ prev # None
    /\ Len(last[1].order) = 3
    /\ doc[1].parent[last[1].order[2]] = last[1].order[1]
    /\ doc[1].parent[last[1].order[3]] = Body
    /\ marks[last[1].order[3]] = Some(RefId(3))

\* C25: a snapshot of a document that did not change since the snapshot before
\* it (the ref marks that one wrote aside) gives the same elements the same refs
\* in the same order and returns the same tree.
C25_UnchangedDocumentSameRefsAndTree ==
    (last # None /\ last[1].unchanged) =>
        /\ last[1].order = prev[1].order
        /\ last[1].tree = prev[1].tree
        /\ last[1].elements = prev[1].elements

\* C25 witness: the second of two snapshots of an unchanged document with two
\* refs and a returned node that has children.
C25_Witness ==
    /\ last # None /\ last[1].unchanged
    /\ Len(last[1].order) = 2
    /\ \E k \in DOMAIN marks : marks[k] = Some(RefId(2))
    /\ \E i \in 1..Len(last[1].elements) : last[1].elements[i].children # <<>>

\* C26: when the latest snapshot assigned eN to an element and the document
\* did not change since, click "@eN" calls click() on that element once and on
\* no other, and fill "@eN" sets the value of that element only, whatever
\* snapshots and document changes came before that snapshot.
C26_RefSelectorHitsAssignedElement ==
    (lastAction # None /\ lastAction[1].assigned # None /\ ~changed) =>
        lastAction[1].invoked = <<lastAction[1].assigned[1]>>

\* C30: a snapshot requested with the interactive flag set returns elements
\* all of whose nodes are interactive.
C30_InteractiveFlagReturnsInteractiveOnly ==
    [][snapshot(TRUE) =>
          LET nodes == ForestNodes(last'[1].elements)
          IN \A i \in 1..Len(nodes) : nodes[i].interactive]_vars

\* C31: a call invokes Eval only when its id is in the registry with its own
\* waiter, and while the call waits and its frame has not called back the entry
\* stays there: a callback of the frame, however early, finds the waiter.
C31_RegisteredBeforeEval ==
    /\ [](\A r \in Reqs :
            /\ pc[r] = "eval" => (InRegistry(r) /\ pending[id[r][1]] = r)
            /\ evalCalls[r] > 0 => inserts[r] > 0
            /\ (r \in sandbox /\ pc[r] = "wait" /\ chan[r] = "open") =>
                   (InRegistry(r) /\ Waiter(pending, id[r][1]) = Some(r)))
    /\ [][\A s \in Reqs :
            (s \in sandbox /\ s \notin sandbox' /\ pc[s] = "wait" /\ chan[s] = "open") =>
                (chan'[s] = "sent" /\ cbArgs'[s] # None)]_vars

\* C31 witness: the frame of a waiting call called back and its waiter took the
\* result.
C31_Witness ==
    \E r \in Reqs :
        /\ pc[r] = "wait" /\ chan[r] = "sent" /\ r \notin sandbox
        /\ evalCalls[r] = 1 /\ inserts[r] = 1
        /\ cbArgs[r] # None

\* C37: a call request whose window does not exist is answered NotFound before
\* anything else: it gets no CallId and no channel, inserts nothing, never
\* invokes Eval, and the step that answers it leaves the registry as it was.
C37_MissingWindowFailsFirst ==
    /\ [](\A r \in Reqs :
            outcome[r] = "NotFound" =>
                /\ pc[r] = "done" /\ req[r][1].route \in CallRoutes
                /\ id[r] = None /\ chan[r] = "none"
                /\ inserts[r] = 0 /\ evalCalls[r] = 0
                /\ r \notin sandbox
                /\ \A k \in DOMAIN pending : pending[k] # r
                /\ stateLock # Some(r))
    /\ [][\A r \in Reqs :
            (outcome'[r] = "NotFound" /\ outcome[r] # "NotFound") =>
                (pc[r] = "get_window" /\ pending' = pending /\ sandbox' = sandbox)]_vars

\* C37 witness: a call was answered NotFound while the registry holds another
\* call's (leaked) entry.
C37_Witness ==
    \E r \in Reqs :
        /\ outcome[r] = "NotFound"
        /\ DOMAIN pending # {}

\* C36: a console subscriber whose connection is open and that has messages
\* left to read, also after it fell behind by more than the capacity and lost
\* the overwritten ones, goes on to receive them without any frame from its
\* client: it catches up unless the connection ends.
C36_LaggedSubscriberKeepsReceiving ==
    \A s \in Sockets :
        (/\ stream = "console"
         /\ conn[s] = "open"
         /\ subState[s] \in {"streaming", "awaiting_client"}
         /\ Unread(s) # <<>>)
            ~> (Unread(s) = <<>> \/ conn[s] # "open")

\* An element the walk must pass over: it is not shown, or its tag is one of
\* script, style, noscript, template; or it lies below such an element.
RECURSIVE InSkippedSubtree(_, _)
InSkippedSubtree(d, e) ==
    /\ e # Body
    /\ \/ ~d.kind[e].shown
       \/ d.kind[e].tag \in {"script", "style", "noscript", "template"}
       \/ InSkippedSubtree(d, d.parent[e])

\* C34: an element that is not visible or is a script, style, noscript or
\* template element is skipped with its whole subtree: neither it nor anything
\* below it is a node of the snapshot, gets a ref or a ref number, or has its
\* data-debug-ref attribute written by that walk.
C34_SkippedSubtreeLeavesNoTrace ==
    /\ [](last # None =>
            \A e \in Els :
                InSkippedSubtree(doc[1], e) =>
                    /\ \A i \in 1..Len(WalkedNodes) : WalkedNodes[i].el # e
                    /\ \A i \in 1..Len(ReturnedNodes) : ReturnedNodes[i].el # e
                    /\ \A k \in 1..Len(last[1].order) : last[1].order[k] # e
                    /\ marks[e] = None
                    /\ Len(last[1].order) =
                           Cardinality({x \in Els : /\ ~InSkippedSubtree(doc[1], x)
                                                    /\ isInteractive(doc[1].kind[x])}))
    /\ [][\A e \in Els :
            (doc # None /\ InSkippedSubtree(doc[1], e)) => marks'[e] = marks[e]]_vars

\* C34 witness: a snapshot of a page with a shown button below a hidden
\* element and, after them in the document, a button that got e1.
C34_Witness ==
    /\ last # None
    /\ \E h, b, v \in Els :
          /\ ~doc[1].kind[h].shown /\ doc[1].parent[b] = h
          /\ doc[1].kind[b].tag = "button" /\ doc[1].kind[b].shown
          /\ b < v
          /\ last[1].order = <<v>> /\ marks[v] = Some(RefId(1))

\* An element with content of its own: interactive, or with direct text, or
\* with a role attribute. Such an element is never collapsed.
OwnContent(k) == isInteractive(k) \/ k.text # None \/ k.role # None

\* e lies below a in the document.
RECURSIVE Below(_, _, _)
Below(d, e, a) ==
    e # Body /\ (d.parent[e] = a \/ Below(d, d.parent[e], a))

\* a comes before b in document order.
Precedes(d, a, b) ==
    \E i, j \in 1..Len(DocOrder(d, Body)) :
        i < j /\ DocOrder(d, Body)[i] = a /\ DocOrder(d, Body)[j] = b

\* The elements strictly between e and a on the way up from e.
Between(d, e, a) == {x \in Els : Below(d, e, x) /\ Below(d, x, a)}

\* C32: a non-interactive element without direct text, without role and with
\* at most one surviving child is no node of the tree: its single surviving
\* child stands in its place, or nothing does. Elements with content of their
\* own are nodes; a node's children are elements below it, in document order,
\* with only collapsed elements in between. A chain of two plain wrappers
\* around one element with text yields that one node, carrying the text.
C32_WrappersCollapse ==
    last # None =>
        LET d == doc[1] IN
        /\ \A i \in 1..Len(WalkedNodes) :
              LET nd == WalkedNodes[i] IN
              /\ OwnContent(KindOf(d, nd.el)) \/ Len(nd.children) >= 2
              /\ \A c \in 1..Len(nd.children) :
                    /\ Below(d, nd.children[c].el, nd.el)
                    /\ \A x \in Between(d, nd.children[c].el, nd.el) :
                          ~OwnContent(d.kind[x])
                    /\ c > 1 => Precedes(d, nd.children[c - 1].el, nd.children[c].el)
        /\ \A e \in Els :
              (~InSkippedSubtree(d, e) /\ OwnContent(d.kind[e])) =>
                  \E i \in 1..Len(WalkedNodes) : WalkedNodes[i].el = e
        /\ (/\ d.parent = [e \in Els |-> e - 1]
            /\ \A e \in Els : ~OwnContent(d.kind[e]) <=> e < MaxEls
            /\ \A e \in Els : d.kind[e].shown /\ d.kind[e].tag = "div"
            /\ d.kind[MaxEls].text # None /\ d.kind[MaxEls].role = None) =>
               /\ last[1].tree = Some([el |-> MaxEls, tag |-> "div", ref |-> None,
                                       interactive |-> FALSE, role |-> None,
                                       text |-> d.kind[MaxEls].text,
                                       children |-> <<>>])
               /\ last[1].elements = <<last[1].tree[1]>>

\* C32 witness: the snapshot of div > div > div with text.
C32_Witness ==
    /\ last # None
    /\ doc[1].parent = [e \in Els |-> e - 1]
    /\ \A e \in Els : doc[1].kind[e].shown /\ doc[1].kind[e].tag = "div"
    /\ \A e \in Els : ~OwnContent(doc[1].kind[e]) <=> e < MaxEls
    /\ doc[1].kind[MaxEls].text # None
    /\ Len(WalkedNodes) = 1

\* C33: no node of a returned snapshot is empty: every node other than the
\* root standing for the document body has direct text, or a role, or at
\* least one child, or is interactive.
C33_NoEmptyNode ==
    last # None =>
        /\ \A i \in 1..Len(ReturnedNodes) :
              LET nd == ReturnedNodes[i] IN
              nd.el # Body =>
                  \/ nd.text # None
                  \/ nd.role # None
                  \/ nd.children # <<>>
                  \/ nd.interactive
        /\ \A i \in 1..Len(WalkedNodes) :
              LET nd == WalkedNodes[i] IN
              nd.el # Body =>
                  \/ nd.text # None
                  \/ nd.role # None
                  \/ nd.children # <<>>
                  \/ nd.interactive

\* C33 witness: a snapshot of a document holding a visible element without any
\* content of its own and without children, next to elements that are returned.
C33_Witness ==
    /\ last # None
    /\ \E e \in Els :
          /\ ~InSkippedSubtree(doc[1], e)
          /\ ~OwnContent(doc[1].kind[e])
          /\ ElChildren(doc[1], e) = <<>>
          /\ \A i \in 1..Len(WalkedNodes) : WalkedNodes[i].el # e
    /\ Len(ReturnedNodes) >= 2

\* C35: every element a walk assigned a ref appears in the returned elements
\* as a node carrying that ref, also when that element is the only surviving
\* child of the document body.
C35_EveryRefIsReturned ==
    last # None =>
        \A n \in 1..Len(last[1].order) :
            \E i \in 1..Len(ReturnedNodes) :
                /\ ReturnedNodes[i].el = last[1].order[n]
                /\ ReturnedNodes[i].ref = Some(RefId(n))

====
